---- MODULE Spec2Model ----
(***************************************************************************)
(* Model of the dependency update notifier (src/main.py).                  *)
(*                                                                         *)
(* Python strings are sequences of one-character strings; Python values    *)
(* that may be None, a string, a number, a list or a dict are records      *)
(* tagged by their type in field t.  Text positions are 0-based as in      *)
(* Python.                                                                 *)
(* version.parse / Version.__lt__ are modelled after packaging >= 22 (the  *)
(* releases whose parse raises InvalidVersion, which main.py catches) for  *)
(* version strings written with digits, ".", "r", "c" and white space;     *)
(* the strings the model uses with other characters ("1.x", "none") are    *)
(* no versions.  White space is what str.strip() and the \s of the version *)
(* pattern take as such among the characters up to U+00FF.                 *)
(* subprocess.run is the environment: each call draws what the external    *)
(* program did.                                                            *)
(***************************************************************************)
EXTENDS Integers, Sequences, FiniteSets, TLC

VARIABLES
    pc,                 \* position of main: start, loop, security, done, crashed
    args,               \* parsed command line (check_security, project_path)
    installed_packages, \* value returned by get_installed_packages
    i,                  \* 1-based index of the next package of the for loop
    updates_available,  \* list built by check_for_updates
    log,                \* records written through the logging module
    stdout,             \* lines printed on standard output
    calls,              \* external commands run so far, in order
    lookups,            \* each resolver call: what pip did, what the resolver returned
    exit_status,        \* process exit status (-1 while running)
    probe_in,           \* resolver on its own: the parts of the error output
    probe_out           \* resolver on its own: value and log records it produced

vars == <<pc, args, installed_packages, i, updates_available, log, stdout,
          calls, lookups, exit_status, probe_in, probe_out>>

(***************************************************************************)
(* Bounds of the model.                                                    *)
(***************************************************************************)
\* longest package list pip reports
MaxPkgs == 2
\* most entries in a "(from versions: ...)" list when the resolver is run on its own
MaxListed == 2
\* most release segments of the generated versions when the comparison is run on its own
MaxSegments == 2

(***************************************************************************)
(* Python string primitives.                                               *)
(***************************************************************************)
Min(S) == CHOOSE x \in S : \A y \in S : x <= y
Max(S) == CHOOSE x \in S : \A y \in S : x >= y

\* str.isspace() of one character: space, tab, line feed, carriage return,
\* form feed, vertical tab, the separators U+001C..U+001F, U+0085, U+00A0
IsSpace(c) == c \in {" ", "\t", "\n", "\r", "\f", "", "", "", "", "", "", " "}
IsDigit(c) == c \in {"0", "1", "2", "3", "4", "5", "6", "7", "8", "9"}
DigitVal(c) ==
    CHOOSE n \in 0..9 : <<"0", "1", "2", "3", "4", "5", "6", "7", "8", "9">>[n + 1] = c

\* str.strip()
Strip(s) ==
    LET keep == {k \in 1..Len(s) : ~IsSpace(s[k])}
    IN  IF keep = {} THEN <<>> ELSE SubSeq(s, Min(keep), Max(keep))

\* str.find(sub, start): lowest 0-based index >= start where sub occurs, else -1
Find(s, sub, start) ==
    LET hits == {k \in start..(Len(s) - Len(sub)) : SubSeq(s, k + 1, k + Len(sub)) = sub}
    IN  IF hits = {} THEN -1 ELSE Min(hits)

\* s[a:b] for 0 <= a, 0 <= b <= len(s)
Slice(s, a, b) == SubSeq(s, a + 1, b)

\* str.split(sep) for a one-character separator: never returns an empty list
RECURSIVE Split(_, _)
Split(s, sep) ==
    LET hits == {k \in 1..Len(s) : s[k] = sep}
    IN  IF hits = {} THEN <<s>>
        ELSE <<SubSeq(s, 1, Min(hits) - 1)>> \o Split(SubSeq(s, Min(hits) + 1, Len(s)), sep)

\* int(s) for a non-empty string of digits
RECURSIVE ToInt(_)
ToInt(s) ==
    IF s = <<>> THEN 0
    ELSE 10 * ToInt(SubSeq(s, 1, Len(s) - 1)) + DigitVal(s[Len(s)])

AllDigits(s) == \A k \in 1..Len(s) : IsDigit(s[k])

(***************************************************************************)
(* packaging.version: parse and ordering.                                  *)
(***************************************************************************)
\* [0-9]+(?:\.[0-9]+)*
IsReleaseText(t) ==
    /\ Len(t) > 0
    /\ \A k \in 1..Len(t) : IsDigit(t[k]) \/ t[k] = "."
    /\ IsDigit(t[1])
    /\ IsDigit(t[Len(t)])
    /\ \A k \in 1..(Len(t) - 1) : ~(t[k] = "." /\ t[k + 1] = ".")

\* the optional separator in front of a pre/post label, or after it
DropSep(t) == IF t # <<>> /\ t[1] = "." THEN Tail(t) ELSE t

\* [-_.]?(c|rc)[-_.]?([0-9]+)?   (the labels spelled with r and c only)
IsPreText(t) ==
    LET u == DropSep(t)
    IN  \/ /\ Len(u) >= 1
           /\ u[1] = "c"
           /\ AllDigits(DropSep(Tail(u)))
        \/ /\ Len(u) >= 2
           /\ u[1] = "r"
           /\ u[2] = "c"
           /\ AllDigits(DropSep(Tail(Tail(u))))

\* [-_.]?(r)[-_.]?([0-9]+)?
IsPostText(t) ==
    LET u == DropSep(t)
    IN  /\ Len(u) >= 1
        /\ u[1] = "r"
        /\ AllDigits(DropSep(Tail(u)))

\* the implicit or explicit number that ends a pre/post segment
TrailingNumber(t) ==
    LET nondigit == {k \in 1..Len(t) : ~IsDigit(t[k])}
        digits == IF nondigit = {} THEN t ELSE SubSeq(t, Max(nondigit) + 1, Len(t))
    IN  ToInt(digits)

\* ways to cut the text into release, pre-release and post-release parts:
\* the pairs of the last position of the release and of the pre-release
VersionSplits(t) ==
    LET ends == {a \in 1..Len(t) : IsReleaseText(SubSeq(t, 1, a))}
    IN  {c \in ends \X (1..Len(t)) :
            /\ c[1] <= c[2]
            /\ (c[2] = c[1] \/ IsPreText(SubSeq(t, c[1] + 1, c[2])))
            /\ (c[2] = Len(t) \/ IsPostText(SubSeq(t, c[2] + 1, Len(t))))}

\* _cmpkey drops the trailing zeros of the release
RECURSIVE StripTrailingZeros(_)
StripTrailingZeros(r) ==
    IF r # <<>> /\ r[Len(r)] = 0 THEN StripTrailingZeros(SubSeq(r, 1, Len(r) - 1)) ELSE r

ReleaseOf(text) ==
    LET parts == Split(text, ".")
    IN  [k \in 1..Len(parts) |-> ToInt(parts[k])]

\* a parse that accepts every string and sorts the malformed ones first
ParseVersionLenient(s) ==
    LET t == Strip(s)
        cuts == VersionSplits(t)
    IN  IF cuts = {}
        THEN [valid |-> TRUE, release |-> <<>>, pre |-> <<0, 0>>, post |-> <<0, 0>>]
        ELSE LET c == CHOOSE x \in cuts : TRUE
             IN  [valid   |-> TRUE,
                  release |-> StripTrailingZeros(ReleaseOf(SubSeq(t, 1, c[1]))),
                  pre     |-> IF c[2] = c[1] THEN <<1, 0>>
                              ELSE <<0, TrailingNumber(SubSeq(t, c[1] + 1, c[2]))>>,
                  post    |-> IF c[2] = Len(t) THEN <<0, 0>>
                              ELSE <<1, TrailingNumber(SubSeq(t, c[2] + 1, Len(t)))>>]

\* version.parse(s): valid = FALSE stands for raising InvalidVersion.
\* pre: <<1, 0>> is "no pre-release" (sorts after every rc), <<0, n>> is rc n;
\* post: <<0, 0>> is "no post-release" (sorts first), <<1, n>> is post n.
ParseVersion(s) ==
    LET t == Strip(s)
        cuts == VersionSplits(t)
    IN  IF cuts = {}
        THEN [valid |-> FALSE, release |-> <<>>, pre |-> <<1, 0>>, post |-> <<0, 0>>]
        ELSE LET c == CHOOSE x \in cuts : TRUE
             IN  [valid   |-> TRUE,
                  release |-> StripTrailingZeros(ReleaseOf(SubSeq(t, 1, c[1]))),
                  pre     |-> IF c[2] = c[1] THEN <<1, 0>>
                              ELSE <<0, TrailingNumber(SubSeq(t, c[1] + 1, c[2]))>>,
                  post    |-> IF c[2] = Len(t) THEN <<0, 0>>
                              ELSE <<1, TrailingNumber(SubSeq(t, c[2] + 1, Len(t)))>>]

\* Python's < on tuples of integers
RECURSIVE TupleLess(_, _)
TupleLess(a, b) ==
    IF b = <<>> THEN FALSE
    ELSE IF a = <<>> THEN TRUE
    ELSE IF a[1] # b[1] THEN a[1] < b[1]
    ELSE TupleLess(Tail(a), Tail(b))

\* decimal text of a natural number
RECURSIVE IntText(_)
IntText(n) ==
    IF n < 10 THEN << <<"0", "1", "2", "3", "4", "5", "6", "7", "8", "9">>[n + 1]>>
    ELSE IntText(n \div 10) \o IntText(n % 10)

\* < on strings of digits, character by character
RECURSIVE TextLess(_, _)
TextLess(a, b) ==
    IF b = <<>> THEN FALSE
    ELSE IF a = <<>> THEN TRUE
    ELSE IF a[1] # b[1] THEN DigitVal(a[1]) < DigitVal(b[1])
    ELSE TextLess(Tail(a), Tail(b))

\* < on releases whose segments are compared as text, not as numbers
RECURSIVE TupleLessLexical(_, _)
TupleLessLexical(a, b) ==
    IF b = <<>> THEN FALSE
    ELSE IF a = <<>> THEN TRUE
    ELSE IF a[1] # b[1] THEN TextLess(IntText(a[1]), IntText(b[1]))
    ELSE TupleLessLexical(Tail(a), Tail(b))

VersionLessLexical(a, b) ==
    IF a.release # b.release THEN TupleLessLexical(a.release, b.release)
    ELSE IF a.pre # b.pre THEN TupleLess(a.pre, b.pre)
    ELSE TupleLess(a.post, b.post)

\* Version.__lt__: compares the keys (release, pre, post)
VersionLess(a, b) ==
    IF a.release # b.release THEN TupleLess(a.release, b.release)
    ELSE IF a.pre # b.pre THEN TupleLess(a.pre, b.pre)
    ELSE TupleLess(a.post, b.post)

(***************************************************************************)
(* Python values and log records.                                          *)
(***************************************************************************)
PyNone == [t |-> "none"]
PyStr(s) == [t |-> "str", s |-> s]
PyInt(n) == [t |-> "int", n |-> n]
PyList(items) == [t |-> "list", items |-> items]
\* a dict is the sequence of its <<key, value>> pairs in insertion order,
\* the keys being strings, each present once
PyDict(pairs) == [t |-> "dict", pairs |-> pairs]

\* the keys of the records pip lists
NAME == <<"n", "a", "m", "e">>
VERSION == <<"v", "e", "r", "s", "i", "o", "n">>

\* key in x, for a dict x
HasKey(x, key) == \E k \in 1..Len(x.pairs) : x.pairs[k][1] = key

\* x[key], for a dict x that has the key
GetItem(x, key) == x.pairs[CHOOSE k \in 1..Len(x.pairs) : x.pairs[k][1] = key][2]

\* truth value of a Python object, as tested by "if x:"
Truthy(x) ==
    CASE x.t = "none" -> FALSE
      [] x.t = "str"  -> x.s # <<>>
      [] x.t = "int"  -> x.n # 0
      [] x.t = "list" -> x.items # <<>>
      [] x.t = "dict" -> x.pairs # <<>>

\* one logging call: level, message template, package named by the message
LogRec(level, msg, pkg) == [level |-> level, msg |-> msg, pkg |-> pkg]

\* one subprocess.run: program, operation, project path, package argument
CallRec(prog, op, path, pkg) == [prog |-> prog, op |-> op, path |-> path, pkg |-> pkg]

(***************************************************************************)
(* Version Resolver: get_latest_package_version.                           *)
(***************************************************************************)
MARKER == <<"(", "f", "r", "o", "m", " ", "v", "e", "r", "s", "i", "o", "n", "s", ":">>

\* returning None without the warning
CouldNotDetermineSilently(package_name) == [value |-> PyNone, logs |-> <<>>]

\* logging.warning(...); return None
CouldNotDetermine(package_name) ==
    [value |-> PyNone,
     logs  |-> <<LogRec("WARNING", "Could not determine the latest version for", package_name)>>]

\* versions[0]
FirstEntry(versions) == versions[1]

\* versions[-1]
LastEntry(versions) == versions[Len(versions)]

\* the body of the try block once pip has returned: result.stderr is output
ResolveFromOutput(package_name, output) ==
    LET start_index == Find(output, MARKER, 0)
    IN  IF start_index = -1 THEN CouldNotDetermine(package_name)
        ELSE
          LET start == start_index + Len(MARKER)
              end_index == Find(output, <<")">>, start)
          IN  IF end_index = -1 THEN CouldNotDetermine(package_name)
              ELSE
                LET versions_str == Strip(Slice(output, start, end_index))
                    parts == Split(versions_str, ",")
                    versions == [k \in 1..Len(parts) |-> Strip(parts[k])]
                IN  IF versions = <<>> THEN CouldNotDetermine(package_name)
                    ELSE [value |-> PyStr(LastEntry(versions)), logs |-> <<>>]

\* the whole function; outcome is what subprocess.run did
get_latest_package_version(package_name, outcome) ==
    CASE outcome.kind = "text" -> ResolveFromOutput(package_name, outcome.stderr)
      [] outcome.kind = "notfound" ->
            [value |-> PyNone,
             logs  |-> <<LogRec("ERROR", "pip not found. Ensure pip is installed and in your PATH.", <<>>)>>]
      [] outcome.kind = "oserror" ->
            [value |-> PyNone,
             logs  |-> <<LogRec("ERROR", "An unexpected error occurred", <<>>)>>]

(***************************************************************************)
(* Update Detector: one pass of the for loop of check_for_updates.         *)
(***************************************************************************)
\* package['name'] and package['version']: the exception they raise, or ""
SubscriptError(package) ==
    IF package.t # "dict" THEN "TypeError"
    ELSE IF ~HasKey(package, NAME) THEN "KeyError"
    ELSE IF ~HasKey(package, VERSION) THEN "KeyError"
    ELSE ""

NewCandidate(package_name, installed_version, latest_version) ==
    [name |-> package_name,
     installed_version |-> installed_version,
     latest_version |-> latest_version]

\* version.parse(installed_version) <= version.parse(latest_version)
IsOlderOrSame(installed, latest) == ~VersionLess(latest, installed)

\* version.parse(installed_version) < version.parse(latest_version)
IsOlder(installed, latest) == VersionLess(installed, latest)

\* lines 107-121 for a package whose name and version could be read;
\* raised is the exception leaving check_for_updates, or "", latest the
\* resolver's return value, found the candidate appended, if any
CheckPackage(package, outcome) ==
    LET package_name == GetItem(package, NAME).s
        installed_version == GetItem(package, VERSION)
        latest == get_latest_package_version(package_name, outcome)
        latest_version == latest.value
    IN  IF ~Truthy(latest_version)
        THEN [raised |-> "", latest |-> latest_version, found |-> <<>>,
              logs |-> latest.logs \o
                  <<LogRec("WARNING", "Could not retrieve latest version. Skipping update check.",
                           package_name)>>]
        ELSE IF installed_version.t # "str"
        THEN [raised |-> "TypeError", latest |-> latest_version, found |-> <<>>,
              logs |-> latest.logs]
        ELSE
          LET vi == ParseVersion(installed_version.s)
              vl == ParseVersion(latest_version.s)
          IN  IF ~vi.valid \/ ~vl.valid
              THEN [raised |-> "", latest |-> latest_version, found |-> <<>>,
                    logs |-> latest.logs \o
                        <<LogRec("WARNING", "Invalid version format", package_name)>>]
              ELSE IF IsOlder(vi, vl)
              THEN [raised |-> "", latest |-> latest_version,
                    found |-> <<NewCandidate(package_name, installed_version.s, latest_version.s)>>,
                    logs |-> latest.logs \o
                        <<LogRec("INFO", "Update available", package_name)>>]
              ELSE [raised |-> "", latest |-> latest_version, found |-> <<>>,
                    logs |-> latest.logs]

(***************************************************************************)
(* Package Lister: get_installed_packages.                                 *)
(***************************************************************************)
\* outcome is what "pip list --format=json" did: the exception of
\* subprocess.run, or its stdout, which json.loads decodes or rejects
get_installed_packages(project_path, outcome) ==
    CASE outcome.kind = "nonzero" ->
            [value |-> PyNone,
             logs  |-> <<LogRec("ERROR", "Error listing installed packages", <<>>)>>]
      [] outcome.kind = "notfound" ->
            [value |-> PyNone,
             logs  |-> <<LogRec("ERROR", "pip not found. Ensure pip is installed and in your PATH.", <<>>)>>]
      [] outcome.kind = "oserror" ->
            [value |-> PyNone,
             logs  |-> <<LogRec("ERROR", "An unexpected error occurred", <<>>)>>]
      [] outcome.kind = "stdout" /\ ~outcome.decodes ->
            [value |-> PyNone,
             logs  |-> <<LogRec("ERROR", "Error decoding JSON output from pip", <<>>)>>]
      [] outcome.kind = "stdout" /\ outcome.decodes ->
            [value |-> outcome.json, logs |-> <<>>]

(***************************************************************************)
(* Reporter: the printing part of main.                                    *)
(***************************************************************************)
HEADER == <<"U", "p", "d", "a", "t", "e", "s", " ", "a", "v", "a", "i", "l", "a", "b", "l", "e", ":">>
UPTODATE == <<"A", "l", "l", " ", "d", "e", "p", "e", "n", "d", "e", "n", "c", "i", "e", "s", " ",
              "a", "r", "e", " ", "u", "p", " ", "t", "o", " ", "d", "a", "t", "e", ".">>

\* the line with the two versions exchanged
FormatUpdateSwapped(update) ==
    <<"-", " ">> \o update.name
    \o <<":", " ", "I", "n", "s", "t", "a", "l", "l", "e", "d", " ", "v", "e", "r", "s", "i", "o", "n", " ">>
    \o update.latest_version
    \o <<",", " ", "l", "a", "t", "e", "s", "t", " ", "v", "e", "r", "s", "i", "o", "n", " ">>
    \o update.installed_version

\* f"- {name}: Installed version {installed_version}, latest version {latest_version}"
FormatUpdate(update) ==
    <<"-", " ">> \o update.name
    \o <<":", " ", "I", "n", "s", "t", "a", "l", "l", "e", "d", " ", "v", "e", "r", "s", "i", "o", "n", " ">>
    \o update.installed_version
    \o <<",", " ", "l", "a", "t", "e", "s", "t", " ", "v", "e", "r", "s", "i", "o", "n", " ">>
    \o update.latest_version

\* what main prints for the list check_for_updates returned
ReportLines(updates) ==
    IF updates # <<>>
    THEN <<HEADER>> \o [k \in 1..Len(updates) |-> FormatUpdate(updates[k])]
    ELSE <<UPTODATE>>

(***************************************************************************)
(* check_security_vulnerabilities.                                         *)
(***************************************************************************)
\* outcome is what "safety check --full-report" did
check_security_vulnerabilities(project_path, outcome) ==
    CASE outcome.kind = "exit" /\ outcome.returncode = 0 ->
            <<LogRec("INFO", "No known security vulnerabilities found.", <<>>)>>
      [] outcome.kind = "exit" /\ outcome.returncode = 1 ->
            <<LogRec("WARNING", "Security vulnerabilities found:", <<>>),
              LogRec("WARNING", "result.stdout", <<>>)>>
      [] outcome.kind = "exit" /\ outcome.returncode \notin {0, 1} ->
            <<LogRec("ERROR", "Safety check failed with return code", <<>>)>>
      [] outcome.kind = "notfound" ->
            <<LogRec("ERROR", "Safety not found. Please install it using: pip install safety", <<>>)>>
      [] outcome.kind = "oserror" ->
            <<LogRec("ERROR", "An unexpected error occurred during safety check", <<>>)>>

(***************************************************************************)
(* The environment: what the command line, pip and safety can answer.      *)
(***************************************************************************)
Names == << <<"f", "o", "o">>, <<"b", "a", "r">>, <<"b", "a", "z">>, <<"q", "u", "x">> >>
\* pip lists every package once: the k-th entry has its own name
PackageName(k) == Names[((k - 1) % Len(Names)) + 1]

V190 == <<"1", ".", "9", ".", "0">>
V1100 == <<"1", ".", "1", "0", ".", "0">>
V200 == <<"2", ".", "0", ".", "0">>
V200rc1 == <<"2", ".", "0", ".", "0", "r", "c", "1">>
VBad == <<"1", ".", "x">>
VNone == <<"n", "o", "n", "e">>

InstalledVersions == {V190, V1100, VBad}

\* the entries "pip list" can print at position k: records, and entries that
\* lack a key, are not records, or carry a version that is not a string
WellFormedEntries(k) ==
    {PyDict(<< <<NAME, PyStr(PackageName(k))>>, <<VERSION, PyStr(v)>> >>) : v \in InstalledVersions}
MalformedEntries(k) ==
    {PyDict(<< <<NAME, PyStr(PackageName(k))>> >>),
     PyDict(<< <<VERSION, PyStr(V190)>> >>),
     PyStr(PackageName(k)),
     PyDict(<< <<NAME, PyStr(PackageName(k))>>, <<VERSION, PyInt(2)>> >>)}
Entries(k) == WellFormedEntries(k) \cup MalformedEntries(k)

RECURSIVE ListsOfLength(_)
ListsOfLength(n) ==
    IF n = 0 THEN {<<>>}
    ELSE {Append(l, e) : l \in ListsOfLength(n - 1), e \in Entries(n)}
PackageLists == UNION {ListsOfLength(n) : n \in 0..MaxPkgs}

\* JSON documents that are no list: a string, one record, numbers
OtherDocuments ==
    {PyStr(PackageName(1)),
     PyDict(<< <<NAME, PyStr(PackageName(1))>>, <<VERSION, PyStr(V190)>> >>),
     PyDict(<< << <<"a">>, PyInt(1) >> >>),
     PyInt(5), PyInt(0)}

ListerOutcomes ==
    {[kind |-> "notfound"], [kind |-> "nonzero"], [kind |-> "oserror"],
     [kind |-> "stdout", decodes |-> FALSE, json |-> PyNone]}
    \cup {[kind |-> "stdout", decodes |-> TRUE, json |-> PyList(l)] : l \in PackageLists}
    \cup {[kind |-> "stdout", decodes |-> TRUE, json |-> d] : d \in OtherDocuments}

RECURSIVE Join(_, _)
Join(list, sep) ==
    IF list = <<>> THEN <<>>
    ELSE IF Len(list) = 1 THEN list[1]
    ELSE list[1] \o sep \o Join(Tail(list), sep)

\* "... (from versions: a, b)" as pip prints it
ListText(list) == MARKER \o <<" ">> \o Join(list, <<",", " ">>) \o <<")">> \o <<"\n">>

LookupTexts ==
    {<<"E", "R", "R", "O", "R", ":", " ">>,
     MARKER \o <<" ">> \o V190,
     ListText(<<>>),
     ListText(<<VNone>>),
     ListText(<<V190, V1100>>),
     ListText(<<V1100, V190>>)}

LookupOutcomes ==
    {[kind |-> "notfound"], [kind |-> "oserror"]}
    \cup {[kind |-> "text", stderr |-> t] : t \in LookupTexts}

ScannerOutcomes ==
    {[kind |-> "notfound"], [kind |-> "oserror"]}
    \cup {[kind |-> "exit", returncode |-> c] : c \in {0, 1, 2}}

ProjectPaths == {"."}

\* for x in installed_packages: the items the loop visits
\* "for package in x": "TypeError" when x cannot be iterated, or ""
IterError(x) == IF x.t = "int" THEN "TypeError" ELSE ""

\* what "for package in x" visits: the items of a list, the characters of a
\* string, the keys of a dict; nothing for None, which check_for_updates
\* answers before the loop, and nothing for a number, where the loop raises
Items(x) ==
    CASE x.t = "list" -> x.items
      [] x.t = "str"  -> [k \in 1..Len(x.s) |-> PyStr(<<x.s[k]>>)]
      [] x.t = "dict" -> [k \in 1..Len(x.pairs) |-> PyStr(x.pairs[k][1])]
      [] OTHER -> <<>>

Unprobed == [value |-> PyNone, logs |-> <<>>]
NoProbe ==
    [front |-> <<>>, marker |-> FALSE, gap |-> <<>>, listed |-> <<>>, closer |-> FALSE,
     behind |-> <<>>]

(***************************************************************************)
(* main, cut at its calls to external programs.                            *)
(***************************************************************************)
Init ==
    /\ pc = "start"
    /\ args \in [check_security : BOOLEAN, project_path : ProjectPaths]
    /\ installed_packages = PyNone
    /\ i = 1
    /\ updates_available = <<>>
    /\ log = <<>>
    /\ stdout = <<>>
    /\ calls = <<>>
    /\ lookups = <<>>
    /\ exit_status = -1
    /\ probe_in = NoProbe
    /\ probe_out = Unprobed

\* a main that returns right after reporting the failed listing
UpdatePhaseOrExit(pkgs) == IF Truthy(pkgs) THEN "loop" ELSE "done"

\* where main goes after get_installed_packages returned
UpdatePhaseTarget(pkgs) == IF Truthy(pkgs) THEN "loop" ELSE "security"

\* main up to the for loop of check_for_updates: the listing, and the branch on it
ListInstalled ==
    /\ pc = "start"
    /\ \E outcome \in ListerOutcomes :
         LET listed == get_installed_packages(args.project_path, outcome)
             started == <<LogRec("INFO", "Starting dependency update check...", <<>>)>>
             target == UpdatePhaseTarget(listed.value)
         IN  /\ installed_packages' = listed.value
             /\ calls' = Append(calls, CallRec("pip", "list", args.project_path, <<>>))
             /\ pc' = target
             /\ log' = log \o started \o listed.logs \o
                    (IF target # "loop"
                     THEN <<LogRec("ERROR", "Failed to retrieve installed packages. Check logs for details.", <<>>)>>
                     ELSE IF listed.value.t = "none"
                     THEN <<LogRec("ERROR", "No installed packages found. Exiting.", <<>>)>>
                     ELSE <<>>)
    /\ i' = 1
    /\ updates_available' = <<>>
    /\ UNCHANGED <<args, stdout, lookups, exit_status, probe_in, probe_out>>

\* the for statement of check_for_updates raises: the value cannot be iterated
IterationRaises ==
    /\ pc = "loop"
    /\ IterError(installed_packages) # ""
    /\ pc' = "crashed"
    /\ exit_status' = 1
    /\ UNCHANGED <<args, installed_packages, i, updates_available, log, stdout,
                   calls, lookups, probe_in, probe_out>>

\* one pass of the for loop whose package['name'] or package['version'] raises
SubscriptRaises ==
    /\ pc = "loop"
    /\ IterError(installed_packages) = ""
    /\ i <= Len(Items(installed_packages))
    /\ SubscriptError(Items(installed_packages)[i]) # ""
    /\ pc' = "crashed"
    /\ exit_status' = 1
    /\ UNCHANGED <<args, installed_packages, i, updates_available, log, stdout,
                   calls, lookups, probe_in, probe_out>>

\* one pass of the for loop, with its call of the resolver
CheckNextPackage ==
    /\ pc = "loop"
    /\ IterError(installed_packages) = ""
    /\ i <= Len(Items(installed_packages))
    /\ SubscriptError(Items(installed_packages)[i]) = ""
    /\ \E outcome \in LookupOutcomes :
         LET package == Items(installed_packages)[i]
             r == CheckPackage(package, outcome)
         IN  /\ calls' = Append(calls, CallRec("pip", "install", ".", GetItem(package, NAME).s))
             /\ lookups' = Append(lookups, [outcome |-> outcome, answer |-> r.latest])
             /\ log' = log \o r.logs
             /\ updates_available' = updates_available \o r.found
             /\ IF r.raised = ""
                THEN /\ i' = i + 1
                     /\ pc' = "loop"
                     /\ exit_status' = exit_status
                ELSE /\ i' = i
                     /\ pc' = "crashed"
                     /\ exit_status' = 1
    /\ UNCHANGED <<args, installed_packages, stdout, probe_in, probe_out>>

\* check_for_updates returns and main prints the report
ReportUpdates ==
    /\ pc = "loop"
    /\ IterError(installed_packages) = ""
    /\ i > Len(Items(installed_packages))
    /\ stdout' = stdout \o ReportLines(updates_available)
    /\ pc' = "security"
    /\ UNCHANGED <<args, installed_packages, i, updates_available, log, calls,
                   lookups, exit_status, probe_in, probe_out>>

\* --check-security given: the scanner runs, then main ends
RunSecurityCheck ==
    /\ pc = "security"
    /\ args.check_security
    /\ \E outcome \in ScannerOutcomes :
         log' = log
                \o <<LogRec("INFO", "Checking for security vulnerabilities...", <<>>)>>
                \o check_security_vulnerabilities(args.project_path, outcome)
                \o <<LogRec("INFO", "Dependency update check complete.", <<>>)>>
    /\ calls' = Append(calls, CallRec("safety", "check", args.project_path, <<>>))
    /\ pc' = "done"
    /\ exit_status' = 0
    /\ UNCHANGED <<args, installed_packages, i, updates_available, stdout,
                   lookups, probe_in, probe_out>>

\* --check-security not given: main ends
Finish ==
    /\ pc = "security"
    /\ ~args.check_security
    /\ log' = Append(log, LogRec("INFO", "Dependency update check complete.", <<>>))
    /\ pc' = "done"
    /\ exit_status' = 0
    /\ UNCHANGED <<args, installed_packages, i, updates_available, stdout, calls,
                   lookups, probe_in, probe_out>>

Next ==
    \/ ListInstalled
    \/ IterationRaises
    \/ SubscriptRaises
    \/ CheckNextPackage
    \/ ReportUpdates
    \/ RunSecurityCheck
    \/ Finish

Spec == Init /\ [][Next]_vars

(***************************************************************************)
(* The resolver on its own: one call of get_latest_package_version on a    *)
(* failed install's error output, assembled from a text in front, the      *)
(* marker, the listed versions, the closing parenthesis and a text behind. *)
(***************************************************************************)
ListedVersions == {V190, V1100, V200, V200rc1, VNone}

RECURSIVE VersionListsOfLength(_)
VersionListsOfLength(n) ==
    IF n = 0 THEN {<<>>}
    ELSE {Append(l, v) : l \in VersionListsOfLength(n - 1), v \in ListedVersions}
VersionLists == UNION {VersionListsOfLength(n) : n \in 0..MaxListed}

TextsInFront == {<<>>, <<"(", "x", ")", " ">>}
TextsBehind == {<<>>, <<" ">> \o MARKER \o <<" ", "9", ")">>}

\* the white space pip puts after the marker and after each comma
Gaps == {<<" ">>, <<"\t">>, <<"\r", "\n">>}

ProbeInputs ==
    [front : TextsInFront, marker : BOOLEAN, gap : Gaps, listed : VersionLists,
     closer : BOOLEAN, behind : TextsBehind]

ProbeText(in) ==
    in.front
    \o (IF in.marker THEN MARKER ELSE <<>>)
    \o in.gap \o Join(in.listed, <<",">> \o in.gap)
    \o (IF in.closer THEN <<")">> ELSE <<>>)
    \o in.behind

InitResolver ==
    /\ pc = "probe"
    /\ args = [check_security |-> FALSE, project_path |-> "."]
    /\ installed_packages = PyNone
    /\ i = 1
    /\ updates_available = <<>>
    /\ log = <<>>
    /\ stdout = <<>>
    /\ calls = <<>>
    /\ lookups = <<>>
    /\ exit_status = -1
    /\ probe_in = NoProbe
    /\ probe_out = Unprobed

ProbeResolver ==
    /\ pc = "probe"
    /\ \E in \in ProbeInputs :
         /\ probe_in' = in
         /\ probe_out' = get_latest_package_version(PackageName(1),
                             [kind |-> "text", stderr |-> ProbeText(in)])
    /\ pc' = "probed"
    /\ UNCHANGED <<args, installed_packages, i, updates_available, log, stdout,
                   calls, lookups, exit_status>>

NextResolver == ProbeResolver

SpecResolver == InitResolver /\ [][NextResolver]_vars

(***************************************************************************)
(* The detector's comparison on its own: one pass of the loop for a        *)
(* package whose installed version and whose latest version are written    *)
(* out from release numbers and an optional release-candidate number.      *)
(***************************************************************************)
SegmentValues == {0, 1, 9, 10}
NamedReleases == {<<1, 9, 0>>, <<1, 10, 0>>, <<2, 0, 0>>}

RECURSIVE ReleasesOfLength(_)
ReleasesOfLength(n) ==
    IF n = 0 THEN {<<>>}
    ELSE {Append(r, x) : r \in ReleasesOfLength(n - 1), x \in SegmentValues}

\* rc = 0 is a final release, rc = n > 0 its n-th release candidate
VersionNumbers ==
    [release : UNION {ReleasesOfLength(n) : n \in 1..MaxSegments} \cup NamedReleases,
     rc : {0, 1}]

\* "1.10.0", "2.0.0rc1"
VersionText(v) ==
    Join([k \in 1..Len(v.release) |-> IntText(v.release[k])], <<".">>)
    \o (IF v.rc > 0 THEN <<"r", "c">> \o IntText(v.rc) ELSE <<>>)

\* white space around the installed version string
Pads == {<<>>, <<"\t">>}

InitCompare ==
    /\ pc = "compare"
    /\ args = [check_security |-> FALSE, project_path |-> "."]
    /\ installed_packages = PyNone
    /\ i = 1
    /\ updates_available = <<>>
    /\ log = <<>>
    /\ stdout = <<>>
    /\ calls = <<>>
    /\ lookups = <<>>
    /\ exit_status = -1
    /\ probe_in = NoProbe
    /\ probe_out = Unprobed

CompareVersions ==
    /\ pc = "compare"
    /\ \E a \in VersionNumbers, b \in VersionNumbers, pad \in Pads :
         /\ probe_in' = [installed |-> a, latest |-> b, pad |-> pad]
         /\ probe_out' = CheckPackage(
                PyDict(<< <<NAME, PyStr(PackageName(1))>>,
                          <<VERSION, PyStr(pad \o VersionText(a) \o pad)>> >>),
                [kind |-> "text", stderr |-> ListText(<<VersionText(b)>>)])
    /\ pc' = "compared"
    /\ UNCHANGED <<args, installed_packages, i, updates_available, log, stdout,
                   calls, lookups, exit_status>>

NextCompare == CompareVersions

SpecCompare == InitCompare /\ [][NextCompare]_vars

(***************************************************************************)
(* Vocabulary of the properties.                                           *)
(***************************************************************************)
Packages == Items(installed_packages)

\* the resolver's return value for the k-th lookup
Answer(k) == lookups[k].answer

\* packages whose pass of the loop ended without an exception
Processed == 1..(i - 1)

\* check_for_updates has returned to main
DetectorReturned == pc \in {"security", "done"} /\ Truthy(installed_packages)

IsCandidate(name) == \E c \in 1..Len(updates_available) : updates_available[c].name = name

WarningsNaming(name) ==
    Cardinality({j \in 1..Len(log) : log[j].level = "WARNING" /\ log[j].pkg = name})

DetectorWarningsNaming(name) ==
    Cardinality({j \in 1..Len(log) :
        /\ log[j].level = "WARNING"
        /\ log[j].pkg = name
        /\ log[j].msg \in {"Could not retrieve latest version. Skipping update check.",
                           "Invalid version format"}})

\* the candidate the k-th package should contribute, if any: its resolver
\* answer is determinate, both strings parse, installed is strictly below latest
ExpectedFor(k) ==
    LET installed == GetItem(Packages[k], VERSION)
        latest == Answer(k)
    IN  IF latest.t = "str" /\ installed.t = "str"
        THEN LET vi == ParseVersion(installed.s)
                 vl == ParseVersion(latest.s)
             IN  IF vi.valid /\ vl.valid /\ VersionLess(vi, vl)
                 THEN <<[name |-> GetItem(Packages[k], NAME).s,
                         installed_version |-> installed.s,
                         latest_version |-> latest.s]>>
                 ELSE <<>>
        ELSE <<>>

\* the qualifying packages among the first n, in input order, as candidates
RECURSIVE ExpectedCandidates(_)
ExpectedCandidates(n) ==
    IF n = 0 THEN <<>> ELSE ExpectedCandidates(n - 1) \o ExpectedFor(n)

(***************************************************************************)
(* C1: check_for_updates returns exactly the subsequence of the input, in  *)
(* input order, of the packages whose resolver answer is determinate,      *)
(* whose installed and latest strings both parse and whose installed       *)
(* version is strictly below the latest; each candidate carries the name,  *)
(* the installed string and the resolver's string unchanged.  Stated on    *)
(* every state: the list built so far is that subsequence of the packages  *)
(* processed so far, and on return every package has been processed.       *)
(***************************************************************************)
C1_CandidatesAreExactlyTheOutdated ==
    /\ pc \in {"loop", "security", "done", "crashed"} =>
         updates_available = ExpectedCandidates(i - 1)
    /\ DetectorReturned => i - 1 = Len(Packages)

\* a run to the end where the first package is skipped and the second reported
C1_Witness ==
    /\ pc = "done"
    /\ Len(Packages) = 2
    /\ Len(updates_available) = 1
    /\ updates_available[1].name = PackageName(2)
    /\ updates_available[1].installed_version = V190
    /\ updates_available[1].latest_version = V1100

(***************************************************************************)
(* C2: the comparison that decides whether a package is a candidate is     *)
(* the structured version order, never the lexical order of the strings:   *)
(* for parseable installed and latest strings the package is a candidate   *)
(* iff installed is strictly below latest when the release segments are    *)
(* compared numerically one by one and a pre-release sorts before its      *)
(* final release; 1.9.0 -> 1.10.0 is a candidate, 1.10.0 -> 1.9.0 is not,  *)
(* 2.0.0 -> 2.0.0rc1 is not, equal versions are not.                       *)
(***************************************************************************)
Segment(release, j) == IF j <= Len(release) THEN release[j] ELSE 0

\* the order as the claim words it, on the numbers the strings were written from
NumericallyBelow(a, b) ==
    LET n == IF Len(a.release) > Len(b.release) THEN Len(a.release) ELSE Len(b.release)
        differ == {j \in 1..n : Segment(a.release, j) # Segment(b.release, j)}
    IN  IF differ # {}
        THEN Segment(a.release, Min(differ)) < Segment(b.release, Min(differ))
        ELSE \/ a.rc > 0 /\ b.rc = 0
             \/ a.rc > 0 /\ b.rc > 0 /\ a.rc < b.rc

Comparing(a, ra, b, rb) ==
    /\ probe_in.installed = [release |-> a, rc |-> ra]
    /\ probe_in.latest = [release |-> b, rc |-> rb]

C2_StructuredVersionOrderDecides ==
    pc = "compared" =>
        /\ probe_out.raised = ""
        /\ probe_out.found # <<>> <=> NumericallyBelow(probe_in.installed, probe_in.latest)
        /\ Comparing(<<1, 9, 0>>, 0, <<1, 10, 0>>, 0) => probe_out.found # <<>>
        /\ Comparing(<<1, 10, 0>>, 0, <<1, 9, 0>>, 0) => probe_out.found = <<>>
        /\ Comparing(<<2, 0, 0>>, 0, <<2, 0, 0>>, 1) => probe_out.found = <<>>
        /\ probe_in.installed = probe_in.latest => probe_out.found = <<>>

\* installed 1.9.0 against latest 1.10.0 has been compared and reported
C2_Witness ==
    /\ pc = "compared"
    /\ Comparing(<<1, 9, 0>>, 0, <<1, 10, 0>>, 0)
    /\ probe_out.found =
         <<[name |-> PackageName(1), installed_version |-> V190, latest_version |-> V1100]>>

(***************************************************************************)
(* C3: whenever the resolver returns a version string, it is the highest   *)
(* version, under the Version ordering, among the versions pip listed,     *)
(* whatever the order of the list.  Stated for an error output that        *)
(* carries the marker, a list of parseable versions and the closing        *)
(* parenthesis.                                                            *)
(***************************************************************************)
WellFormedList == probe_in.marker /\ probe_in.closer /\ probe_in.listed # <<>>

AllListedParse == \A k \in 1..Len(probe_in.listed) : ParseVersion(probe_in.listed[k]).valid

ListedAscending ==
    \A k \in 1..(Len(probe_in.listed) - 1) :
        ~VersionLess(ParseVersion(probe_in.listed[k + 1]), ParseVersion(probe_in.listed[k]))

ReturnedIsHighest ==
    /\ probe_out.value.t = "str"
    /\ \E k \in 1..Len(probe_in.listed) : probe_out.value.s = probe_in.listed[k]
    /\ \A k \in 1..Len(probe_in.listed) :
         ~VersionLess(ParseVersion(probe_out.value.s), ParseVersion(probe_in.listed[k]))

C3_ReturnsHighestListed ==
    (pc = "probed" /\ WellFormedList /\ AllListedParse) => ReturnedIsHighest

(***************************************************************************)
(* C3, as the code has it: when the error output carries the marker, a     *)
(* non-empty list and the closing parenthesis, the resolver returns the    *)
(* last listed entry; that entry is the highest listed version when all    *)
(* entries parse and pip lists them in ascending Version order.            *)
(***************************************************************************)
C3_ReturnsLastListed ==
    (pc = "probed" /\ WellFormedList) =>
        /\ probe_out.value = PyStr(probe_in.listed[Len(probe_in.listed)])
        /\ probe_out.logs = <<>>
        /\ (AllListedParse /\ ListedAscending) => ReturnedIsHighest

\* "(from versions: 1.9.0, 1.10.0)" has been resolved to 1.10.0
C3_Witness ==
    /\ pc = "probed"
    /\ WellFormedList
    /\ probe_in.listed = <<V190, V1100>>
    /\ probe_out.value = PyStr(V1100)

(***************************************************************************)
(* C10: the resolver returns None, with a warning and not an error, when   *)
(* the marker is missing or no ")" follows it, and also when the package   *)
(* is unknown to the index (pip then lists "none") or the response is      *)
(* otherwise unparseable (the list has no entry); in every other case it   *)
(* returns the last comma-separated entry, stripped, of the text between   *)
(* the first marker and the next ")".                                      *)
(***************************************************************************)
C10_AbsentOrLastEntry ==
    pc = "probed" =>
        LET output == ProbeText(probe_in)
            at == Find(output, MARKER, 0)
            close == IF at = -1 THEN -1 ELSE Find(output, <<")">>, at + Len(MARKER))
            between == IF close = -1 THEN <<>> ELSE Strip(Slice(output, at + Len(MARKER), close))
            entries == Split(between, ",")
        IN  IF at = -1 \/ close = -1 \/ between = <<>> \/ between = VNone
            THEN /\ probe_out.value.t = "none"
                 /\ Len(probe_out.logs) = 1
                 /\ probe_out.logs[1].level = "WARNING"
            ELSE probe_out.value = PyStr(Strip(entries[Len(entries)]))

(***************************************************************************)
(* C4: for every package whose lookup is indeterminate (marker missing,    *)
(* pip missing, any other lookup failure), across the resolver call and    *)
(* the detector together: the package is no candidate, exactly one         *)
(* warning is logged for it, and the loop goes on to the other packages.   *)
(***************************************************************************)
LookedUp == 1..Len(lookups)

Indeterminate(k) == Answer(k).t = "none"

C4_IndeterminateOneWarning ==
    \A k \in LookedUp :
        Indeterminate(k) =>
            /\ ~IsCandidate(PackageName(k))
            /\ WarningsNaming(PackageName(k)) = 1
            /\ i > k

(***************************************************************************)
(* C4, as the code has it: for every package whose lookup is               *)
(* indeterminate, the package is no candidate, the detector logs exactly   *)
(* one warning for it, right after the record the resolver logged itself   *)
(* (a warning naming the package when the marker or the ")" is missing,    *)
(* which makes two warnings for the package; an error when the lookup      *)
(* raised), and the loop goes on: once check_for_updates has returned,     *)
(* every package has been looked up.                                       *)
(***************************************************************************)
SkipWarning(name) ==
    LogRec("WARNING", "Could not retrieve latest version. Skipping update check.", name)

C4_IndeterminateSkippedAndLogged ==
    /\ \A k \in LookedUp :
         Indeterminate(k) =>
            LET name == PackageName(k)
                byText == lookups[k].outcome.kind = "text"
            IN  /\ ~IsCandidate(name)
                /\ DetectorWarningsNaming(name) = 1
                /\ WarningsNaming(name) = IF byText THEN 2 ELSE 1
                /\ \E j \in 2..Len(log) :
                     /\ log[j] = SkipWarning(name)
                     /\ log[j - 1].level = IF byText THEN "WARNING" ELSE "ERROR"
                     /\ log[j - 1].pkg = IF byText THEN name ELSE <<>>
                /\ i > k
    /\ DetectorReturned => Len(lookups) = Len(Packages)

\* a finished run whose first lookup found no marker and whose second package
\* was still reported
C4_Witness ==
    /\ pc = "done"
    /\ Len(Packages) = 2
    /\ Indeterminate(1)
    /\ lookups[1].outcome.kind = "text"
    /\ WarningsNaming(PackageName(1)) = 2
    /\ IsCandidate(PackageName(2))

(***************************************************************************)
(* C5: for every package whose installed version string does not parse,    *)
(* whatever the resolver answers: the package is no candidate, exactly     *)
(* one warning is logged for it, and the loop goes on to the other         *)
(* packages.                                                               *)
(***************************************************************************)
InstalledUnparseable(k) == GetItem(Packages[k], VERSION) = PyStr(VBad)

C5_UnparseableOneWarning ==
    \A k \in Processed :
        InstalledUnparseable(k) =>
            /\ ~IsCandidate(PackageName(k))
            /\ WarningsNaming(PackageName(k)) = 1
            /\ i > k

(***************************************************************************)
(* C5, as the code has it: for every package whose installed version       *)
(* string does not parse, the package is no candidate and the detector     *)
(* logs exactly one warning for it ("Invalid version format" when the      *)
(* resolver returned a non-empty string, the skip warning otherwise); the  *)
(* only other warning for it is the resolver's own, logged when the        *)
(* marker or the ")" is missing; and the loop goes on: once                *)
(* check_for_updates has returned, every package has been looked up.       *)
(***************************************************************************)
C5_UnparseableSkippedAndLogged ==
    /\ \A k \in Processed :
         InstalledUnparseable(k) =>
            LET name == PackageName(k)
                resolverWarned == Indeterminate(k) /\ lookups[k].outcome.kind = "text"
            IN  /\ ~IsCandidate(name)
                /\ DetectorWarningsNaming(name) = 1
                /\ WarningsNaming(name) = IF resolverWarned THEN 2 ELSE 1
                /\ \E j \in 1..Len(log) :
                     log[j] = IF Truthy(Answer(k))
                              THEN LogRec("WARNING", "Invalid version format", name)
                              ELSE SkipWarning(name)
                /\ i > k
    /\ DetectorReturned => Len(lookups) = Len(Packages)

\* a finished run whose first package has an unparseable installed version,
\* a resolved latest version and one warning, and whose second was reported
C5_Witness ==
    /\ pc = "done"
    /\ Len(Packages) = 2
    /\ InstalledUnparseable(1)
    /\ Answer(1) = PyStr(V1100)
    /\ WarningsNaming(PackageName(1)) = 1
    /\ IsCandidate(PackageName(2))

(***************************************************************************)
(* C6: the Reporter writes exactly one line per candidate, in candidate    *)
(* order, each of the form "name: installed_version -> latest_version",    *)
(* and when the candidate sequence handed to it is empty it writes         *)
(* exactly one "up to date" message and no candidate line.                 *)
(***************************************************************************)
ArrowLine(update) ==
    update.name \o <<":", " ">> \o update.installed_version
    \o <<" ", "-", ">", " ">> \o update.latest_version

C6_OneArrowLinePerCandidate ==
    DetectorReturned =>
        IF updates_available = <<>>
        THEN stdout = <<UPTODATE>>
        ELSE stdout = [k \in 1..Len(updates_available) |-> ArrowLine(updates_available[k])]

(***************************************************************************)
(* C6, as the code has it: nothing is printed before check_for_updates     *)
(* returns, nor when the listing yields no package; for a non-empty        *)
(* candidate sequence the Reporter writes the header "Updates available:"  *)
(* and then exactly one line per candidate, in candidate order, of the     *)
(* form "- name: Installed version installed_version, latest version       *)
(* latest_version"; for an empty one it writes exactly the line "All       *)
(* dependencies are up to date." and no candidate line.                    *)
(***************************************************************************)
CandidateLine(k) ==
    <<"-", " ">> \o updates_available[k].name
    \o <<":", " ", "I", "n", "s", "t", "a", "l", "l", "e", "d", " ", "v", "e", "r", "s", "i", "o", "n", " ">>
    \o updates_available[k].installed_version
    \o <<",", " ", "l", "a", "t", "e", "s", "t", " ", "v", "e", "r", "s", "i", "o", "n", " ">>
    \o updates_available[k].latest_version

C6_HeaderThenOneLinePerCandidate ==
    IF DetectorReturned
    THEN IF updates_available = <<>>
         THEN stdout = <<UPTODATE>>
         ELSE /\ Len(stdout) = Len(updates_available) + 1
              /\ stdout[1] = HEADER
              /\ \A k \in 1..Len(updates_available) : stdout[k + 1] = CandidateLine(k)
    ELSE stdout = <<>>

\* a finished run that reported two candidates on three lines
C6_Witness ==
    /\ pc = "done"
    /\ Len(updates_available) = 2
    /\ Len(stdout) = 3
    /\ updates_available[1].name = PackageName(1)
    /\ updates_available[2].name = PackageName(2)

(***************************************************************************)
(* C7: every run of main, whatever the Lister (failure, empty list,        *)
(* non-empty list), the lookups and the scanner did, ends having printed   *)
(* an update summary (the candidate lines or the "up to date" summary) on  *)
(* standard output.                                                        *)
(***************************************************************************)
C7_SummaryPrintedBeforeEnd ==
    pc = "done" => stdout # <<>>

(***************************************************************************)
(* C8: no failure escapes a component: whatever pip and the scanner        *)
(* print, listing entries without a name or a version, entries that are    *)
(* not records and versions that are not strings included, no exception    *)
(* reaches main and the process exits with status 0.                       *)
(***************************************************************************)
C8_NoExceptionEscapes ==
    /\ pc # "crashed"
    /\ exit_status \in {-1, 0}

(***************************************************************************)
(* C9: when the Lister fails (pip not found, non-zero exit, unparseable    *)
(* output), the run logs the failure, never invokes the resolver, prints   *)
(* no candidate line, ends normally, and invokes the scanner exactly once  *)
(* after the update phase if --check-security was given and never          *)
(* otherwise.                                                              *)
(***************************************************************************)
ListerFailed == pc # "start" /\ installed_packages.t = "none"

ScannerCalls == {j \in 1..Len(calls) : calls[j].prog = "safety"}

IsCandidateLine(line) == Len(line) >= 2 /\ line[1] = "-" /\ line[2] = " "

C9_ListerFailureSkipsUpdatePhase ==
    ListerFailed =>
        /\ pc \in {"security", "done"}
        /\ Len(log) >= 3
        /\ log[2].level = "ERROR"
        /\ log[3] = LogRec("ERROR", "Failed to retrieve installed packages. Check logs for details.", <<>>)
        /\ lookups = <<>>
        /\ \A j \in 1..Len(calls) : calls[j].op # "install"
        /\ \A j \in 1..Len(stdout) : ~IsCandidateLine(stdout[j]) /\ stdout[j] # HEADER
        /\ pc = "security" => ScannerCalls = {}
        /\ pc = "done" =>
             /\ exit_status = 0
             /\ ScannerCalls = IF args.check_security THEN {Len(calls)} ELSE {}
             /\ calls[1].op = "list"

\* a finished run whose listing failed and whose scanner ran once
C9_Witness ==
    /\ pc = "done"
    /\ ListerFailed
    /\ args.check_security
    /\ Cardinality(ScannerCalls) = 1

====
